---- MODULE Spec2Model ----
(***************************************************************************)
(* ABQ Data Entry: the validated input widgets (ValidatedMixin and its     *)
(* subclasses, the stand-alone DateEntry) and the save path of the form    *)
(* (DataRecordForm.get / reset, Application._on_save, on_save).            *)
(*                                                                         *)
(* Texts are sequences of one-character strings, so that insertion at an   *)
(* index, deletion, prefix matching and number/date parsing are computed   *)
(* as the code computes them.                                              *)
(***************************************************************************)
EXTENDS Integers, Sequences, FiniteSets, TLC

\* ---------------------------------------------------------------- bounds
\* longest text a key event may produce in the widget under test
MaxLen == 8
\* most data rows held by all CSV files together
MaxRows == 2
\* number of calendar days the clock may show
MaxDays == 2

\* ------------------------------------------------------- text primitives
Digits == {"0", "1", "2", "3", "4", "5", "6", "7", "8", "9"}

\* str.isdigit() on a one-character string
IsDigit(c) == c \in Digits

DigitVal(c) ==
  CASE c = "0" -> 0 [] c = "1" -> 1 [] c = "2" -> 2 [] c = "3" -> 3
    [] c = "4" -> 4 [] c = "5" -> 5 [] c = "6" -> 6 [] c = "7" -> 7
    [] c = "8" -> 8 [] c = "9" -> 9 [] OTHER -> 0

AllDigits(s) == \A i \in 1..Len(s) : IsDigit(s[i])

RECURSIVE Num(_)
\* value of a sequence of decimal digits
Num(s) == IF s = <<>> THEN 0
          ELSE 10 * Num(SubSeq(s, 1, Len(s) - 1)) + DigitVal(s[Len(s)])

RECURSIVE Pow10(_)
Pow10(n) == IF n <= 0 THEN 1 ELSE 10 * Pow10(n - 1)

\* the text Tk proposes (%P) when char is inserted at index (%i, 0-based)
InsertAt(s, i, c) == SubSeq(s, 1, i) \o <<c>> \o SubSeq(s, i + 1, Len(s))

\* the text Tk proposes (%P) when the character at index is deleted
DeleteAt(s, i) == SubSeq(s, 1, i) \o SubSeq(s, i + 2, Len(s))

\* str.lower() on a one-character string
LowerChar(c) == CASE c = "A" -> "a" [] c = "B" -> "b" [] c = "C" -> "c"
                  [] OTHER -> c

Lower(s) == [i \in 1..Len(s) |-> LowerChar(s[i])]

\* str.startswith
StartsWith(s, p) == Len(p) <= Len(s) /\ SubSeq(s, 1, Len(p)) = p

\* ------------------------------------------------- datetime.strptime
IsLeap(y) == (y % 4 = 0 /\ y % 100 # 0) \/ y % 400 = 0

DaysInMonth(y, m) ==
  IF m = 2 THEN (IF IsLeap(y) THEN 29 ELSE 28)
  ELSE IF m \in {4, 6, 9, 11} THEN 30 ELSE 31

\* %m : 1[0-2] | 0[1-9] | [1-9]
MonthText(s) == /\ Len(s) \in {1, 2}
                /\ AllDigits(s)
                /\ Num(s) \in 1..12

\* %d : 3[01] | [12]\d | 0[1-9] | [1-9] | ' '[1-9]
DayText(s) ==
  \/ /\ Len(s) \in {1, 2}
     /\ AllDigits(s)
     /\ Num(s) \in 1..31
  \/ /\ Len(s) = 2
     /\ s[1] = " "
     /\ IsDigit(s[2])
     /\ s[2] # "0"

\* TRUE iff datetime.strptime(s, '%Y-%m-%d') returns (raises no ValueError)
StrptimeOk(s) ==
  \E m \in 1..2, d \in 1..2 :
    /\ Len(s) = 4 + 1 + m + 1 + d
    /\ AllDigits(SubSeq(s, 1, 4))
    /\ s[5] = "-"
    /\ MonthText(SubSeq(s, 6, 5 + m))
    /\ s[6 + m] = "-"
    /\ DayText(SubSeq(s, 7 + m, 6 + m + d))
    /\ Num(SubSeq(s, 1, 4)) >= 1
    /\ Num(SubSeq(s, 7 + m, 6 + m + d))
         <= DaysInMonth(Num(SubSeq(s, 1, 4)), Num(SubSeq(s, 6, 5 + m)))

\* ------------------------------------------------------ decimal.Decimal
\* position of the first '.' in s, 0 when there is none
DotPos(s) == IF \E i \in 1..Len(s) : s[i] = "."
             THEN CHOOSE i \in 1..Len(s) :
                    s[i] = "." /\ \A j \in 1..(i - 1) : s[j] # "."
             ELSE 0

\* the digits of s with the point removed
Mantissa(s) == IF DotPos(s) = 0 THEN s
               ELSE SubSeq(s, 1, DotPos(s) - 1) \o SubSeq(s, DotPos(s) + 1, Len(s))

\* TRUE iff Decimal(s) returns (raises no InvalidOperation), unsigned texts
DecimalOk(s) == /\ Mantissa(s) # <<>>
                /\ AllDigits(Mantissa(s))

\* number of digits after the point: -Decimal(s).as_tuple().exponent
Decimals(s) == IF DotPos(s) = 0 THEN 0 ELSE Len(s) - DotPos(s)

\* Decimal(s) > n / 100, on the digits m and the number k of decimals of s:
\* m / 10^k > n / 100
DecimalGt(s, n) ==
  LET m == Num(Mantissa(s))
      k == Decimals(s)
  IN IF k <= 2
     THEN m > n \div Pow10(2 - k)
     ELSE \/ m \div Pow10(k - 2) > n
          \/ (m \div Pow10(k - 2) = n /\ m % Pow10(k - 2) > 0)

\* Decimal(s) < n / 100
DecimalLt(s, n) ==
  LET m == Num(Mantissa(s))
      k == Decimals(s)
  IN IF k <= 2
     THEN m <= (n - 1) \div Pow10(2 - k)
     ELSE m \div Pow10(k - 2) < n

\* char in '-1234567890.' (substring test on a one-character string)
InNumberChars(c) == c \in (Digits \cup {"-", "."})

\* proposed in '-.' (substring test)
InMinusDot(s) == s \in {<<>>, <<"-">>, <<".">>, <<"-", ".">>}

\* ------------------------------------------------------------ the widgets
\* the widget under test: one instance of each validated class of the form,
\* and the stand-alone DateEntry of DateEntry.py
MixinKinds == {"RequiredEntry", "DateEntry", "Time", "Plot", "Plants", "Humidity"}
EntryKinds == MixinKinds \cup {"DateEntryPy"}
Kinds == EntryKinds \cup {"Lab"}

\* the characters the keyboard offers to each widget
KeyChars(k) ==
  CASE k \in {"DateEntry", "DateEntryPy"} -> {"0", "1", "-"}
    [] k = "Time" -> {"1", "2", "6", "8", ":", "0", "A"}
    [] k = "Plot" -> {"1", "2", "0", "9"}
    [] k = "Plants" -> {"0", "1", "2", ".", "-", "A"}
    [] k = "Humidity" -> {"0", "1", "5", ".", "-"}
    [] OTHER -> {"A", " "}

\* input_args={'values': ...} of the Time and Plot comboboxes, Lab radio group
ComboValues(k) ==
  IF k = "Time"
  THEN << <<"8", ":", "0", "0">>, <<"1", "2", ":", "0", "0">>,
          <<"1", "6", ":", "0", "0">>, <<"2", "0", ":", "0", "0">> >>
  ELSE << <<"1">>, <<"2">>, <<"3">>, <<"4">>, <<"5">>, <<"6">>, <<"7">>,
          <<"8">>, <<"9">>, <<"1", "0">>, <<"1", "1">>, <<"1", "2">>,
          <<"1", "3">>, <<"1", "4">>, <<"1", "5">>, <<"1", "6">>,
          <<"1", "7">>, <<"1", "8">>, <<"1", "9">>, <<"2", "0">> >>

RadioValues == {<<"A">>, <<"B">>, <<"C">>}

\* from_ / to in hundredths, and -precision (digits after the point that
\* the increment allows) of the validated spinboxes of the form
SpinConf(k) ==
  CASE k = "Humidity" -> [from |-> 50, to |-> 5200, decimals |-> 2]
    [] k = "Light" -> [from |-> 0, to |-> 10000, decimals |-> 2]
    [] k = "Temperature" -> [from |-> 400, to |-> 4000, decimals |-> 2]
    [] k = "Plants" -> [from |-> 0, to |-> 2000, decimals |-> 0]
    [] OTHER -> [from |-> 0, to |-> 100000, decimals |-> 0]

\* ---- RequiredEntry
\* variant: a text of blanks only counts as empty
RequiredEntry_focusout_validate_strip(text) ==
  IF \A i \in 1..Len(text) : text[i] = " "
  THEN [valid |-> FALSE, error |-> "A value is required"]
  ELSE [valid |-> TRUE, error |-> ""]

RequiredEntry_focusout_validate(text) ==
  IF text = <<>> THEN [valid |-> FALSE, error |-> "A value is required"]
  ELSE [valid |-> TRUE, error |-> ""]

\* ---- DateEntry (data_entry_app_class.py)
DateEntry_key_validate(action, index, char) ==
  IF action = "0" THEN TRUE
  ELSE IF index \in {0, 1, 2, 3, 5, 6, 8, 9} THEN IsDigit(char)
  ELSE IF index \in {4, 7} THEN char = "-"
  ELSE FALSE

DateEntry_focusout_validate(text) ==
  IF ~StrptimeOk(text) THEN [valid |-> FALSE, error |-> "Invalid date"]
  ELSE IF text = <<>> THEN [valid |-> FALSE, error |-> "A value is required"]
  ELSE [valid |-> TRUE, error |-> ""]

\* ---- ValidatedCombobox
\* [x for x in values if x.lower().startswith(proposed.lower())]
Matching(values, proposed) ==
  SelectSeq(values, LAMBDA x : StartsWith(Lower(x), Lower(proposed)))

\* isset: the handler called self.set(setto)
ValidatedCombobox_key_validate(values, proposed, action) ==
  IF action = "0" THEN [valid |-> TRUE, isset |-> TRUE, setto |-> <<>>]
  ELSE IF Len(Matching(values, proposed)) = 0
       THEN [valid |-> FALSE, isset |-> FALSE, setto |-> <<>>]
  ELSE IF Len(Matching(values, proposed)) = 1
       THEN [valid |-> FALSE, isset |-> TRUE,
             setto |-> Matching(values, proposed)[1]]
  ELSE [valid |-> TRUE, isset |-> FALSE, setto |-> <<>>]

ValidatedCombobox_focusout_validate(text) ==
  IF text = <<>> THEN [valid |-> FALSE, error |-> "A value is required"]
  ELSE [valid |-> TRUE, error |-> ""]

\* ---- ValidatedSpinbox
ValidatedSpinbox_key_validate(conf, char, index, current, proposed, action) ==
  LET no_negative == conf.from >= 0
      no_decimal == conf.decimals <= 0
  IN IF action = "0" THEN TRUE
     ELSE IF \/ ~InNumberChars(char)
             \/ (char = "-" /\ (no_negative \/ index # 0))
             \/ (char = "." /\ (no_decimal \/ DotPos(current) # 0))
          THEN FALSE
     ELSE IF InMinusDot(proposed) THEN TRUE
     ELSE IF ~DecimalOk(proposed) THEN FALSE
     ELSE IF \/ DecimalGt(proposed, conf.to)
             \/ Decimals(proposed) > conf.decimals
          THEN FALSE
     ELSE TRUE

ValidatedSpinbox_focusout_validate(conf, value) ==
  IF ~DecimalOk(value) THEN [valid |-> FALSE, error |-> "Invalid number string"]
  ELSE IF DecimalGt(value, conf.to)
       THEN [valid |-> FALSE, error |-> "Value is too high"]
  ELSE IF DecimalLt(value, conf.from)
       THEN [valid |-> FALSE, error |-> "Value is too low"]
  ELSE [valid |-> TRUE, error |-> ""]

\* ---- dispatch on the class of the widget (method resolution)
FocusoutValidate(k, text) ==
  CASE k = "RequiredEntry" -> RequiredEntry_focusout_validate(text)
    [] k = "DateEntry" -> DateEntry_focusout_validate(text)
    [] k \in {"Time", "Plot"} -> ValidatedCombobox_focusout_validate(text)
    [] OTHER -> ValidatedSpinbox_focusout_validate(SpinConf(k), text)

KeyValidate(k, proposed, current, char, index, action) ==
  CASE k = "RequiredEntry" -> [valid |-> TRUE, isset |-> FALSE, setto |-> <<>>]
    [] k = "DateEntry" ->
         [valid |-> DateEntry_key_validate(action, index, char),
          isset |-> FALSE, setto |-> <<>>]
    [] k \in {"Time", "Plot"} ->
         ValidatedCombobox_key_validate(ComboValues(k), proposed, action)
    [] OTHER ->
         [valid |-> ValidatedSpinbox_key_validate(SpinConf(k), char, index,
                                                  current, proposed, action),
          isset |-> FALSE, setto |-> <<>>]

\* ---- ValidatedMixin
\* _toggle_error(on)
toggle_error(on) == IF on THEN "red" ELSE "black"

\* _validate: clears the error and the colour, then runs the rule of the event
\* (no widget of the form is ever configured with state=disabled, so the
\* early return for a disabled widget is never taken)
ValidatedMixin_validate(k, proposed, current, char, event, index, action) ==
  IF event = "focusout"
  THEN [valid |-> FocusoutValidate(k, current).valid,
        error |-> FocusoutValidate(k, current).error,
        foreground |-> toggle_error(FALSE),
        isset |-> FALSE, setto |-> <<>>]
  ELSE IF event = "key"
  THEN [valid |-> KeyValidate(k, proposed, current, char, index, action).valid,
        error |-> "",
        foreground |-> toggle_error(FALSE),
        isset |-> KeyValidate(k, proposed, current, char, index, action).isset,
        setto |-> KeyValidate(k, proposed, current, char, index, action).setto]
  ELSE [valid |-> TRUE, error |-> "", foreground |-> toggle_error(FALSE),
        isset |-> FALSE, setto |-> <<>>]

\* variant: the colour is left alone
focusout_invalid_nocolour(r) == r

\* _focusout_invalid
focusout_invalid(r) == [r EXCEPT !.foreground = toggle_error(TRUE)]

\* _invalid: the colour after the invalid command of the event has run
ValidatedMixin_invalid(r, event) ==
  IF event = "focusout" THEN focusout_invalid(r) ELSE r

\* ---- DateEntry (DateEntry.py)
\* _toggle_error(error): sets the message and the colour together
DateEntryPy_toggle_error(r, error) ==
  [r EXCEPT !.error = error,
            !.foreground = IF error # "" THEN "red" ELSE "black"]

DateEntryPy_validate(current, char, index, event, action) ==
  DateEntryPy_toggle_error(
    [valid |-> IF event = "key"
               THEN (IF action = "0" THEN TRUE
                     ELSE IF index \in {0, 1, 2, 3, 5, 6, 8, 9} THEN IsDigit(char)
                     ELSE IF index \in {4, 7} THEN char = "-"
                     ELSE FALSE)
               ELSE IF event = "focusout" THEN StrptimeOk(current)
               ELSE TRUE,
     error |-> "", foreground |-> "black", isset |-> FALSE, setto |-> <<>>],
    "")

DateEntryPy_on_invalid(r, event) ==
  IF event # "key" THEN DateEntryPy_toggle_error(r, "Not a valid date") ELSE r

\* ---- ttk entry validation: run validatecommand, then invalidcommand when
\* it returned false; the edit is applied only when the command returned
\* true and did not set the value itself
EntryValidateChange(k, proposed, current, char, event, index, action) ==
  LET v == IF k = "DateEntryPy"
           THEN DateEntryPy_validate(current, char, index, event, action)
           ELSE ValidatedMixin_validate(k, proposed, current, char, event,
                                        index, action)
      r == IF v.valid THEN v
           ELSE IF k = "DateEntryPy" THEN DateEntryPy_on_invalid(v, event)
           ELSE ValidatedMixin_invalid(v, event)
  IN [valid |-> r.valid, error |-> r.error, foreground |-> r.foreground,
      content |-> IF r.isset THEN r.setto
                  ELSE IF event = "key" /\ r.valid THEN proposed
                  ELSE current]

\* ValidatedMixin.trigger_focusout_validation
trigger_focusout_validation(k, current) ==
  LET v == ValidatedMixin_validate(k, <<>>, current, "", "focusout", 0, "")
  IN IF ~v.valid THEN focusout_invalid(v) ELSE v

\* ValidatedRadioGroup.trigger_focusout_validation
ValidatedRadioGroup_trigger_focusout_validation(value) ==
  IF value = <<>> THEN "A value is required" ELSE ""

\* ------------------------------------------------------------------ state
VARIABLES
  kind,           \* the class of the widget under test
  content,        \* the widget's text (the radio group's variable)
  error,          \* the widget's error variable
  foreground,     \* the widget's text colour
  last,           \* the last validation event of the widget: the event, what
                  \* the rule returned and the text the widget was left with
  app,            \* "class": data_entry_app_class.py, "script": data_entry_app.py
  form,           \* the control variables of the form, as the texts they hold
  today,          \* the day the clock shows
  fs,             \* the CSV files, by day; <<>> when the file does not exist
  records_saved,  \* the session's counter of saved records
  status,         \* the status bar
  lastSave        \* the last save: the files and the form it started from

widgetVars == <<kind, content, error, foreground, last>>
formVars == <<app, form, today, fs, records_saved, status, lastSave>>
vars == <<kind, content, error, foreground, last,
          app, form, today, fs, records_saved, status, lastSave>>

NoSave == [op |-> "none", ok |-> FALSE, day |-> 0, pre |-> <<>>,
           form |-> <<>>]

\* the form part at rest, while a single widget is exercised
FormIdle ==
  /\ app = "none"
  /\ form = <<>>
  /\ today = 1
  /\ fs = <<>>
  /\ records_saved = 0
  /\ status = <<>>
  /\ lastSave = NoSave

\* the text a freshly built widget shows: the value of its new control
\* variable (StringVar '', IntVar 0, DoubleVar 0.0)
InitialText(k) ==
  CASE k \in {"Plot", "Plants"} -> <<"0">>
    [] k = "Humidity" -> <<"0", ".", "0">>
    [] OTHER -> <<>>

InitWidget ==
  /\ kind \in Kinds
  /\ content = InitialText(kind)
  /\ error = ""
  /\ foreground = "black"
  /\ last = [event |-> "none", valid |-> TRUE, text |-> <<>>]
  /\ FormIdle

\* the widget takes the outcome r of a validation event
Apply(r, event) ==
  /\ content' = r.content
  /\ error' = r.error
  /\ foreground' = r.foreground
  /\ last' = [event |-> event, valid |-> r.valid, text |-> r.content]
  /\ UNCHANGED kind
  /\ UNCHANGED formVars

\* a key press that inserts one character at an index
KeyInsert ==
  /\ kind \in EntryKinds
  /\ Len(content) < MaxLen
  /\ \E i \in 0..Len(content), c \in KeyChars(kind) :
       Apply(EntryValidateChange(kind, InsertAt(content, i, c), content,
                                 c, "key", i, "1"), "key")

\* a key press that deletes the character at an index
KeyDelete ==
  /\ kind \in EntryKinds
  /\ \E i \in 0..(Len(content) - 1) :
       Apply(EntryValidateChange(kind, DeleteAt(content, i), content,
                                 content[i + 1], "key", i, "0"), "key")

\* the widget loses the focus
FocusOut ==
  /\ kind \in EntryKinds
  /\ Apply(EntryValidateChange(kind, content, content, "", "focusout", 0 - 1,
                               "-1"), "focusout")

\* the widget gets the focus
FocusIn ==
  /\ kind \in EntryKinds
  /\ Apply(EntryValidateChange(kind, content, content, "", "focusin", 0 - 1,
                               "-1"), "focusin")

\* trigger_focusout_validation() is called on the widget
TriggerFocusoutValidation ==
  /\ kind \in MixinKinds
  /\ Apply([valid |-> trigger_focusout_validation(kind, content).valid,
            error |-> trigger_focusout_validation(kind, content).error,
            foreground |-> trigger_focusout_validation(kind, content).foreground,
            content |-> content], "focusout")

\* the radio group loses the focus (its <FocusOut> binding)
RadioFocusOut ==
  /\ kind = "Lab"
  /\ error' = ValidatedRadioGroup_trigger_focusout_validation(content)
  /\ last' = [event |-> "focusout", valid |-> TRUE, text |-> content]
  /\ UNCHANGED <<kind, content, foreground>>
  /\ UNCHANGED formVars

\* a radio button of the group is clicked
RadioSelect ==
  /\ kind = "Lab"
  /\ \E v \in RadioValues : content' = v
  /\ UNCHANGED <<kind, error, foreground, last>>
  /\ UNCHANGED formVars

\* DataRecordForm.reset sets the control variable of the widget to ''
VarReset ==
  /\ content' = <<>>
  /\ UNCHANGED <<kind, error, foreground, last>>
  /\ UNCHANGED formVars

NextWidget ==
  \/ KeyInsert
  \/ KeyDelete
  \/ FocusOut
  \/ FocusIn
  \/ TriggerFocusoutValidation
  \/ RadioFocusOut
  \/ RadioSelect
  \/ VarReset

SpecWidget == InitWidget /\ [][NextWidget]_vars

\* ---------------------------------------------------------------- the form
\* the keys of DataRecordForm._vars (of `variables`, then 'Notes'), in order
Fields == <<"Date", "Time", "Technician", "Lab", "Plot", "Seed Sample",
            "Humidity", "Light", "Temperature", "Equipment Fault",
            "Plants", "Blossoms", "Fruit",
            "Min Height", "Max Height", "Med Height", "Notes">>

FieldSet == {Fields[i] : i \in 1..Len(Fields)}

\* the class of the control variable of each field
VarType(k) ==
  CASE k \in {"Plot", "Plants", "Blossoms", "Fruit"} -> "IntVar"
    [] k \in {"Humidity", "Light", "Temperature",
              "Min Height", "Max Height", "Med Height"} -> "DoubleVar"
    [] k = "Equipment Fault" -> "BooleanVar"
    [] OTHER -> "StringVar"

\* the fields left blank on an equipment fault
FaultFields == {"Light", "Humidity", "Temperature"}

\* the text of a control variable right after its construction
VarDefault(k) ==
  CASE VarType(k) = "IntVar" -> <<"0">>
    [] VarType(k) = "DoubleVar" -> <<"0", ".", "0">>
    [] VarType(k) = "BooleanVar" -> <<"0">>
    [] OTHER -> <<>>

RECURSIVE IntText(_)
\* str(n) of a natural number
IntText(n) ==
  LET d == <<"0", "1", "2", "3", "4", "5", "6", "7", "8", "9">>
  IN IF n < 10 THEN <<d[n + 1]>> ELSE IntText(n \div 10) \o <<d[(n % 10) + 1]>>

\* str(x) of the float x = h / 100
FloatText(h) ==
  IntText(h \div 100) \o <<".">> \o
    (IF h % 10 = 0 THEN IntText((h % 100) \div 10)
     ELSE IntText((h % 100) \div 10) \o IntText(h % 10))

\* hundredths of the number a text of at most two decimals denotes
Hundredths(text) == Num(Mantissa(text)) * Pow10(2 - Decimals(text))

\* Variable.get(): ok is FALSE when it raises TclError; cell is the text
\* that csv writes for the value returned (str of the int, float or bool)
VarGet(k, text) ==
  CASE VarType(k) = "StringVar" -> [ok |-> TRUE, cell |-> text]
    [] VarType(k) = "BooleanVar" ->
         [ok |-> TRUE, cell |-> IF text = <<"1">> THEN <<"True">> ELSE <<"False">>]
    [] VarType(k) = "IntVar" ->
         IF DecimalOk(text) /\ Decimals(text) <= 2
         THEN [ok |-> TRUE, cell |-> IntText(Hundredths(text) \div 100)]
         ELSE [ok |-> FALSE, cell |-> <<>>]
    [] OTHER ->
         IF DecimalOk(text) /\ Decimals(text) <= 2
         THEN [ok |-> TRUE, cell |-> FloatText(Hundredths(text))]
         ELSE [ok |-> FALSE, cell |-> <<>>]

\* BooleanVar.get() of the Equipment Fault variable
Fault(f) == f["Equipment Fault"] = <<"1">>

\* the fields whose variable is read: all but the blanked ones on a fault
ReadFields(f) == {k \in FieldSet : ~(Fault(f) /\ k \in FaultFields)}

\* position of a key in the iteration over the variables
FieldIndex(k) == CHOOSE i \in 1..Len(Fields) : Fields[i] = k

\* DataRecordForm.get: the data of the form, or the first key whose
\* variable raises TclError (ValueError)
get(f) ==
  LET bad == {k \in ReadFields(f) : ~VarGet(k, f[k]).ok}
  IN IF bad # {}
     THEN [ok |-> FALSE,
           key |-> CHOOSE k \in bad :
                     \A j \in bad : FieldIndex(k) <= FieldIndex(j),
           data |-> [k \in FieldSet |-> <<>>]]
     ELSE [ok |-> TRUE, key |-> "",
           data |-> [k \in FieldSet |->
                       IF k \in ReadFields(f) THEN VarGet(k, f[k]).cell
                       ELSE <<>>]]

\* the data on_save collects: the variables as in get, and the content of
\* the Notes text widget up to tk.END, which ends in a newline
script_get(f) ==
  IF get(f).ok
  THEN [get(f) EXCEPT !.data["Notes"] = f["Notes"] \o <<"\n">>]
  ELSE get(f)

\* DataRecordForm.reset / on_reset
reset(f) ==
  [k \in FieldSet |-> IF VarType(k) = "BooleanVar" THEN <<"0">> ELSE <<>>]

\* the form of a freshly started application: the class version shows the
\* new variables, the script calls on_reset() before the main loop
InitialForm(a) ==
  IF a = "script" THEN reset([k \in FieldSet |-> VarDefault(k)])
  ELSE [k \in FieldSet |-> VarDefault(k)]

\* ---- the CSV files
NoFile == [exists |-> FALSE, lines |-> <<>>]

\* csvwriter.writeheader(): the field names
HeaderLine == [kind |-> "header", cells |-> [k \in FieldSet |-> <<k>>]]

\* csvwriter.writerow(data)
RowLine(data) == [kind |-> "row", cells |-> data]

\* variant: every save takes the file for a new one
NewFile_always(file) == TRUE

\* not Path(filename).exists()
NewFile(file) == ~file.exists

\* variant: the file is opened with mode 'w'
AppendRecord_truncate(file, newfile, data) ==
  [exists |-> TRUE,
   lines |-> (IF newfile THEN <<HeaderLine>> ELSE <<>>) \o <<RowLine(data)>>]

\* open(filename, 'a') and the writes under it
AppendRecord(file, newfile, data) ==
  [exists |-> TRUE,
   lines |-> file.lines
             \o (IF newfile THEN <<HeaderLine>> ELSE <<>>)
             \o <<RowLine(data)>>]

DataRows(file) == SelectSeq(file.lines, LAMBDA l : l.kind = "row")

RECURSIVE TotalRows(_, _)
TotalRows(files, d) ==
  IF d = 0 THEN 0 ELSE Len(DataRows(files[d])) + TotalRows(files, d - 1)

NoStatus == [msg |-> "", key |-> "", n |-> 0]

\* ---- what the user may put into a field
T_A == <<"A">>
T_1_5 == <<"1", ".", "5">>

EditChoices(a, k) ==
  IF k = "Equipment Fault" THEN {<<"0">>, <<"1">>}
  ELSE IF a = "class"
  THEN CASE k = "Technician" -> {T_A}
         [] k = "Humidity" -> {T_1_5}
         [] k = "Plants" -> {<<>>}
         [] OTHER -> {}
  ELSE CASE VarType(k) = "IntVar" -> {<<"1">>}
         [] k \in {"Min Height", "Max Height", "Med Height"} -> {T_1_5}
         [] OTHER -> {}

\* ------------------------------------------------------- the form's steps
WidgetIdle ==
  /\ kind = "none"
  /\ content = <<>>
  /\ error = ""
  /\ foreground = "black"
  /\ last = [event |-> "none", valid |-> TRUE, text |-> <<>>]

InitForm ==
  /\ app \in {"class", "script"}
  /\ form = InitialForm(app)
  /\ today = 1
  /\ fs = [d \in 1..MaxDays |-> NoFile]
  /\ records_saved = 0
  /\ status = NoStatus
  /\ lastSave = NoSave
  /\ WidgetIdle

\* the user changes the text of a field (a tick of the check box)
Edit ==
  /\ \E k \in FieldSet : \E t \in EditChoices(app, k) :
       /\ t # form[k]
       /\ form' = [form EXCEPT ![k] = t]
  /\ lastSave' = NoSave
  /\ UNCHANGED <<app, today, fs, records_saved, status>>
  /\ UNCHANGED widgetVars

\* the Reset button
Reset ==
  /\ form' = reset(form)
  /\ lastSave' = NoSave
  /\ UNCHANGED <<app, today, fs, records_saved, status>>
  /\ UNCHANGED widgetVars

\* the Save button: Application._on_save, or on_save of the script
Save ==
  LET newfile == NewFile(fs[today])
      r == IF app = "script" THEN script_get(form) ELSE get(form)
  IN /\ TotalRows(fs, MaxDays) < MaxRows
     /\ IF ~r.ok
        THEN /\ status' = [msg |-> "error", key |-> r.key, n |-> 0]
             /\ UNCHANGED <<form, fs, records_saved>>
        ELSE /\ fs' = [fs EXCEPT ![today] = AppendRecord(@, newfile, r.data)]
             /\ records_saved' = records_saved + 1
             /\ status' = [msg |-> "saved", key |-> "", n |-> records_saved + 1]
             /\ form' = reset(form)
     /\ lastSave' = [op |-> "save", ok |-> r.ok, day |-> today, pre |-> fs,
                     form |-> form]
     /\ UNCHANGED <<app, today>>
     /\ UNCHANGED widgetVars

\* midnight passes
NextDay ==
  /\ today < MaxDays
  /\ today' = today + 1
  /\ lastSave' = NoSave
  /\ UNCHANGED <<app, form, fs, records_saved, status>>
  /\ UNCHANGED widgetVars

\* the application is closed and started again: the files stay
AppStart ==
  /\ app' = app
  /\ form' = InitialForm(app)
  /\ records_saved' = 0
  /\ status' = NoStatus
  /\ lastSave' = NoSave
  /\ UNCHANGED <<today, fs>>
  /\ UNCHANGED widgetVars

NextForm ==
  \/ Edit
  \/ Reset
  \/ Save
  \/ NextDay
  \/ AppStart

SpecForm == InitForm /\ [][NextForm]_vars

\* ------------------------------------------------------------- properties
\* the validated fields of the form and the focus-out rule of the widget
\* class DataRecordForm.__init__ gives each
ValidatedFields == {"Date", "Time", "Technician", "Lab", "Plot", "Seed Sample",
                    "Humidity", "Light", "Temperature",
                    "Plants", "Blossoms", "Fruit"}

FieldRuleValid(k, text) ==
  CASE k = "Date" -> DateEntry_focusout_validate(text).valid
    [] k \in {"Time", "Plot"} -> ValidatedCombobox_focusout_validate(text).valid
    [] k \in {"Technician", "Seed Sample"} ->
         RequiredEntry_focusout_validate(text).valid
    [] k = "Lab" -> ValidatedRadioGroup_trigger_focusout_validation(text) = ""
    [] OTHER -> ValidatedSpinbox_focusout_validate(SpinConf(k), text).valid

Saved == lastSave.op = "save" /\ lastSave.ok
SaveFailed == lastSave.op = "save" /\ ~lastSave.ok
FileBefore == lastSave.pre[lastSave.day]
FileAfter == fs[lastSave.day]
HeaderCount(file) == Len(SelectSeq(file.lines, LAMBDA l : l.kind = "header"))

\* C1: a save of the class application appends a row only if every
\* validated field of the form passes its focus-out rule.
C1_SaveGatedOnValidity ==
  (Saved /\ app = "class") =>
    \A k \in ValidatedFields : FieldRuleValid(k, lastSave.form[k])

\* the cell csv writes for the value of field k as submitted
SubmittedCell(a, k, text) ==
  IF a = "script" /\ k = "Notes" THEN text \o <<"\n">>
  ELSE VarGet(k, text).cell

\* a successful save left the file of its day as it was, with one data row
\* (after the header of a new file) added at the end, and no other file changed
AppendedOneRow ==
  /\ Len(FileAfter.lines) > Len(FileBefore.lines)
  /\ SubSeq(FileAfter.lines, 1, Len(FileBefore.lines)) = FileBefore.lines
  /\ DataRows(FileAfter) = DataRows(FileBefore) \o <<FileAfter.lines[Len(FileAfter.lines)]>>
  /\ FileAfter.lines[Len(FileAfter.lines)].kind = "row"
  /\ \A d \in 1..MaxDays : d # lastSave.day => fs[d] = lastSave.pre[d]

LastRow == FileAfter.lines[Len(FileAfter.lines)].cells

\* C2 as stated: every successful save adds exactly one data row, holding
\* the value of every field as submitted, at the end of the day's file, and
\* changes no row the file already had.
C2_RowHoldsEveryFieldValue ==
  Saved =>
    /\ AppendedOneRow
    /\ \A k \in FieldSet :
         LastRow[k] = SubmittedCell(app, k, lastSave.form[k])

\* C2 amended: every successful save adds exactly one data row at the end of
\* the day's file and changes no row the file already had; the row holds the
\* value of every field as submitted, except that Humidity, Light and
\* Temperature are written empty when Equipment Fault is ticked.
C2_RowHoldsValuesBlankedOnFault ==
  Saved =>
    /\ AppendedOneRow
    /\ \A k \in FieldSet :
         LastRow[k] = IF Fault(lastSave.form) /\ k \in FaultFields THEN <<>>
                      ELSE SubmittedCell(app, k, lastSave.form[k])

\* a record with Equipment Fault ticked and a humidity reading was appended
\* to a file that already held a row
C2_Witness ==
  /\ Saved
  /\ FileBefore.exists
  /\ Len(DataRows(FileBefore)) >= 1
  /\ Fault(lastSave.form)
  /\ lastSave.form["Humidity"] # <<>>

\* C3: the error message of a validated widget is non-empty iff its text
\* is red, and both hold exactly when the widget's most recent validation
\* event was a focus-out whose rule failed.
C3_ErrorStateSurfaced ==
  kind \in EntryKinds =>
    /\ (error # "") <=> (foreground = "red")
    /\ (error # "") <=> (last.event = "focusout" /\ ~last.valid)

\* a validated widget shows an error after a failed focus-out
C3_Witness ==
  /\ kind \in MixinKinds
  /\ last.event = "focusout"
  /\ ~last.valid
  /\ error # ""
  /\ foreground = "red"
  /\ content # <<>>

\* C4: the text of a DateEntry has at most 10 characters, a digit at every
\* occupied position 0-3, 5, 6, 8, 9 and a hyphen at every occupied position
\* 4 and 7.
C4_DateKeepsIsoShape ==
  kind \in {"DateEntry", "DateEntryPy"} =>
    /\ Len(content) <= 10
    /\ \A i \in 1..Len(content) :
         /\ (i - 1) \in {0, 1, 2, 3, 5, 6, 8, 9} => IsDigit(content[i])
         /\ (i - 1) \in {4, 7} => content[i] = "-"

\* C5: whenever the focus-out validation of the Time combobox succeeds with
\* no error message, its text is one of the configured values.
C5_ComboboxValueFromList ==
  (kind = "Time" /\ last.event = "focusout" /\ last.valid /\ error = "") =>
    \E i \in 1..Len(ComboValues(kind)) : last.text = ComboValues(kind)[i]

\* C6: after a focus-out validation of a RequiredEntry or of the radio
\* group, the error message is 'A value is required' if the value is empty
\* and is empty otherwise; the RequiredEntry's validation returns valid
\* exactly when the text is non-empty.
C6_RequiredValueRule ==
  (kind \in {"RequiredEntry", "Lab"} /\ last.event = "focusout") =>
    /\ error = (IF last.text = <<>> THEN "A value is required" ELSE "")
    /\ kind = "RequiredEntry" => (last.valid <=> last.text # <<>>)

\* a RequiredEntry holding only a blank passed its focus-out validation
C6_Witness ==
  /\ kind = "RequiredEntry"
  /\ last.event = "focusout"
  /\ last.text = <<" ">>
  /\ last.valid
  /\ error = ""

\* C7: a successful save writes the header row iff the day's file did not
\* exist when the save started; a failed save writes nothing and creates no
\* file; a file that exists is one header row followed only by data rows.
C7_HeaderExactlyOnce ==
  /\ Saved =>
       (HeaderCount(FileAfter) = HeaderCount(FileBefore) + 1
          <=> ~FileBefore.exists)
  /\ Saved => HeaderCount(FileAfter) \in {HeaderCount(FileBefore),
                                          HeaderCount(FileBefore) + 1}
  /\ SaveFailed => fs = lastSave.pre
  /\ \A d \in 1..MaxDays :
       IF fs[d].exists
       THEN /\ Len(fs[d].lines) >= 2
            /\ fs[d].lines[1].kind = "header"
            /\ \A i \in 2..Len(fs[d].lines) : fs[d].lines[i].kind = "row"
       ELSE fs[d].lines = <<>>

\* a save onto a file that already existed added a row and no header
C7_Witness ==
  /\ Saved
  /\ FileBefore.exists
  /\ HeaderCount(FileAfter) = 1
  /\ Len(FileAfter.lines) >= 3
====
